---- MODULE Spec2Model ----
(***************************************************************************)
(* Model of s_mises.py: the Abaqus script that adds the signed Mises       *)
(* fieldOutput "S_MISES" to every frame of an odb which holds stress "S".  *)
(*                                                                         *)
(* Numbers are integers (the script only adds, compares with 0 and         *)
(* multiplies by +1/-1).  A numpy array is a record [shape, flat] holding  *)
(* its shape tuple and its elements in row-major order.                    *)
(***************************************************************************)
EXTENDS Integers, Sequences, FiniteSets, TLC

VARIABLES
    disk,       \* odb file name -> archive (sequence of steps) stored on disk
    argv,       \* sys.argv[1:] of the running python process
    argi,       \* index in argv of the argument the for loop is at
    pc,         \* "loop", "walk", "exit", "done", "crashed"
    exc,        \* message of the exception in flight ("" when none)
    odbs,       \* names of the odb files currently open
    cursor,     \* <<step, frame>> the walk of fromOdb will visit next
    out,        \* lines printed by the running process
    runs,       \* number of times the script has been started
    A,          \* argument of the latest sign_trace call
    result,     \* outcome of the latest sign_trace call
    entry,      \* fromOdb in progress / last finished: archive as it was on entry
    outcome,    \* "none", "running", "ok", "error": how that fromOdb ended
    ran,        \* odb name -> "never", "ok", "error": its latest finished fromOdb
    attempted,  \* indices of argv for which fromOdb has been called
    failed      \* frames <<odb, step, frame>> in which calculate has raised

vars == <<disk, argv, argi, pc, exc, odbs, cursor, out, runs, A, result,
          entry, outcome, ran, attempted, failed>>

----------------------------------------------------------------------------
(* Bounds *)

MaxN == 2          \* tensors in a batch handed to sign_trace on its own
MaxFrames == 2     \* frames in an archive of the coarse family
MaxBlocks == 2     \* bulkDataBlocks of the frame of a one-frame archive
MaxArgs == 2       \* command line arguments
MaxRuns == 2       \* times the command is run

----------------------------------------------------------------------------
(* Helpers *)

Min(a, b) == IF a <= b THEN a ELSE b

RECURSIVE SeqsUpTo(_, _)
SeqsUpTo(S, n) ==
    IF n = 0 THEN {<<>>}
    ELSE LET shorter == SeqsUpTo(S, n - 1)
         IN shorter \cup {Append(s, x) : s \in {t \in shorter : Len(t) = n - 1}, x \in S}

RECURSIVE Concat(_)
Concat(ss) == IF ss = <<>> THEN <<>> ELSE Head(ss) \o Concat(Tail(ss))

----------------------------------------------------------------------------
(* numpy *)

foName == "S_MISES"

NotTwoD == "Data must be a 2D array of tensors"
NotSix == "Data elements must be in Abaqus symmetric tensor format"
ShapeError == {NotTwoD, NotSix}

NoArray == [shape |-> <<0>>, flat |-> <<>>]       \* np.asarray([])

Array2D(rows, width) == [shape |-> <<Len(rows), width>>, flat |-> Concat(rows)]

\* A[i, j] of a 2D array, 1-based
At(a, i, j) == a.flat[(i - 1) * a.shape[2] + j]

\* np.sum(A[:,0:3], axis=1)
RowSum3(a) == [i \in 1..a.shape[1] |-> At(a, i, 1) + At(a, i, 2) + At(a, i, 3)]

sign_trace_le(a) ==
    IF Len(a.shape) # 2 THEN [state |-> "raised", exc |-> NotTwoD, value |-> NoArray]
    ELSE IF a.shape[2] # 6 THEN [state |-> "raised", exc |-> NotSix, value |-> NoArray]
    ELSE LET trace == RowSum3(a)
             ones == [i \in 1..Len(trace) |-> 1]
             res == [i \in 1..Len(trace) |-> IF trace[i] <= 0 THEN -1 ELSE ones[i]]
         IN [state |-> "returned", exc |-> "",
             value |-> [shape |-> <<Len(res), 1>>, flat |-> res]]

sign_trace_unchecked(a) ==
    LET w == IF Len(a.shape) = 2 THEN a.shape[2] ELSE 1
        n == IF Len(a.shape) >= 1 THEN a.shape[1] ELSE 0
        res == [i \in 1..n |->
                  IF w >= 3 /\ a.flat[(i-1)*w + 1] + a.flat[(i-1)*w + 2] + a.flat[(i-1)*w + 3] < 0
                  THEN -1 ELSE 1]
    IN [state |-> "returned", exc |-> "",
        value |-> [shape |-> <<n, 1>>, flat |-> res]]

sign_trace(a) ==
    IF Len(a.shape) # 2 THEN [state |-> "raised", exc |-> NotTwoD, value |-> NoArray]
    ELSE IF a.shape[2] # 6 THEN [state |-> "raised", exc |-> NotSix, value |-> NoArray]
    ELSE LET trace == RowSum3(a)
             ones == [i \in 1..Len(trace) |-> 1]
             res == [i \in 1..Len(trace) |-> IF trace[i] < 0 THEN -1 ELSE ones[i]]
         IN [state |-> "returned", exc |-> "",
             value |-> [shape |-> <<Len(res), 1>>, flat |-> res]]

Pending == [state |-> "pending", exc |-> "", value |-> NoArray]

RECURSIVE SortedSeq(_)
SortedSeq(S) ==
    IF S = {} THEN <<>>
    ELSE LET m == CHOOSE x \in S : \A y \in S : x <= y
         IN <<m>> \o SortedSeq(S \ {m})

\* np.unique(labels): the sorted distinct values
unique(labels) == SortedSeq({labels[i] : i \in DOMAIN labels})

\* np.any(a): some entry is truthy
any(a) == \E i \in DOMAIN a : a[i] # 0

BroadcastError == "operands could not be broadcast together"

times_unsigned(s, d) ==
    [exc |-> "", value |-> d]

\* s * d for two column arrays, with numpy's broadcasting of a length-1 axis
times(s, d) ==
    LET n == s.shape[1]
        m == d.shape[1]
    IN IF n = m
         THEN [exc |-> "", value |-> [shape |-> <<m, 1>>,
                                      flat |-> [i \in 1..m |-> s.flat[i] * d.flat[i]]]]
       ELSE IF n = 1
         THEN [exc |-> "", value |-> [shape |-> <<m, 1>>,
                                      flat |-> [i \in 1..m |-> s.flat[1] * d.flat[i]]]]
       ELSE IF m = 1
         THEN [exc |-> "", value |-> [shape |-> <<n, 1>>,
                                      flat |-> [i \in 1..n |-> s.flat[i] * d.flat[1]]]]
       ELSE [exc |-> BroadcastError, value |-> NoArray]

----------------------------------------------------------------------------
(* The odb: what odbAccess hands to the script *)

\* A bulkDataBlock of field "S".  mises holds the Mises invariant Abaqus
\* derives for each tensor of the block; getScalarField returns it.
SBlock(data, mises, labels, sp) ==
    [position |-> "INTEGRATION_POINT", instance |-> "PART-1-1",
     elementLabels |-> labels, data |-> data, sectionPoint |-> sp, mises |-> mises]

\* two tensors, traces -1 and 0, solid elements (no section point)
BlkSolid == SBlock(Array2D(<< <<1, 1, -3, 1, 0, 0>>, <<1, 0, -1, 5, 0, 0>> >>, 6),
                   <<2, 3>>, <<7, 7>>, <<0, 0>>)
\* two tensors, trace -1 with positive shear and trace 1 with negative shear,
\* section points 0 and 1
BlkMixed == SBlock(Array2D(<< <<-1, 0, 0, 9, 9, 9>>, <<0, 0, 1, -4, -4, -4>> >>, 6),
                   <<1, 4>>, <<2, 1>>, <<0, 1>>)
\* plane stress tensors have 4 components: S11, S22, S33, S12
BlkPlane == SBlock(Array2D(<< <<-1, -1, 0, 1>> >>, 4), <<1>>, <<9>>, <<0>>)
\* data that is not 2-dimensional
BlkFlat == SBlock([shape |-> <<6>>, flat |-> <<1, 1, 1, 0, 0, 0>>], <<1>>, <<8>>, <<0>>)

BlockKinds == {BlkSolid, BlkMixed, BlkPlane, BlkFlat}

SField(blocks) ==
    [type |-> "TENSOR_3D_FULL", description |-> "Stress components",
     bulkDataBlocks |-> blocks]

UField == [type |-> "VECTOR", description |-> "Spatial displacement",
           bulkDataBlocks |-> <<>>]

\* a field named S_MISES that was in the odb before the script ever ran
OldSMises ==
    [type |-> "SCALAR", description |-> "Signed Mises equivalent stress",
     bulkDataBlocks |-> << [position |-> "INTEGRATION_POINT", instance |-> "PART-1-1",
                            labels |-> <<7>>,
                            data |-> [shape |-> <<1, 1>>, flat |-> <<-6>>]] >>]

FoNone == [n \in {"U"} |-> UField]
FoS(blocks) == [n \in {"S", "U"} |-> IF n = "S" THEN SField(blocks) ELSE UField]
FoBoth(blocks) ==
    [n \in {"S", foName} |-> IF n = "S" THEN SField(blocks) ELSE OldSMises]

\* S.getScalarField(invariant=MISES): same blocks, one Mises value per tensor
getScalarField(S) ==
    [type |-> "SCALAR", description |-> "Mises equivalent stress",
     bulkDataBlocks |->
        [i \in 1..Len(S.bulkDataBlocks) |->
            LET b == S.bulkDataBlocks[i]
            IN [position |-> b.position, instance |-> b.instance,
                elementLabels |-> b.elementLabels, sectionPoint |-> b.sectionPoint,
                data |-> [shape |-> <<Len(b.mises), 1>>, flat |-> b.mises]]]]

\* outputFrame.FieldOutput(name, description, type): a new, empty field
FieldOutput(fieldOutputs, name, description, type) ==
    [n \in DOMAIN fieldOutputs \cup {name} |->
        IF n = name
        THEN [type |-> type, description |-> description, bulkDataBlocks |-> <<>>]
        ELSE fieldOutputs[n]]

\* field.addData(**options)
addData(field, options) ==
    [field EXCEPT !.bulkDataBlocks = Append(@, options)]

----------------------------------------------------------------------------
(* calculate *)

options_always_sp(MISESblock, data) ==
    [position |-> MISESblock.position, instance |-> MISESblock.instance,
     labels |-> unique(MISESblock.elementLabels), data |-> data,
     sectionPoint |-> MISESblock.sectionPoint]

\* the keyword arguments of addData built in the loop body of calculate
options(MISESblock, data) ==
    LET base == [position |-> MISESblock.position, instance |-> MISESblock.instance,
                 labels |-> unique(MISESblock.elementLabels), data |-> data]
    IN IF any(MISESblock.sectionPoint)
       THEN [k \in DOMAIN base \cup {"sectionPoint"} |->
                IF k = "sectionPoint" THEN MISESblock.sectionPoint ELSE base[k]]
       ELSE base

\* the for loop of calculate over zip(S.bulkDataBlocks, MISES.bulkDataBlocks),
\* from pair i on; st = [field, exc, A, result]
RECURSIVE blockLoop(_, _, _, _)
blockLoop(Sblocks, MISESblocks, i, st) ==
    IF i > Min(Len(Sblocks), Len(MISESblocks)) THEN st
    ELSE LET call == sign_trace(Sblocks[i].data)
             seen == [st EXCEPT !.A = Sblocks[i].data, !.result = call]
         IN IF call.state = "raised" THEN [seen EXCEPT !.exc = call.exc]
            ELSE LET prod == times(call.value, MISESblocks[i].data)
                 IN IF prod.exc # "" THEN [seen EXCEPT !.exc = prod.exc]
                    ELSE blockLoop(Sblocks, MISESblocks, i + 1,
                            [seen EXCEPT !.field =
                                addData(@, options(MISESblocks[i], prod.value))])

calculate_atomic(outputFrame, lastA, lastResult) ==
    LET S == outputFrame.fieldOutputs["S"]
        MISES == getScalarField(S)
        created == FieldOutput(outputFrame.fieldOutputs, foName,
                               "Signed Mises equivalent stress", MISES.type)
        st == blockLoop(S.bulkDataBlocks, MISES.bulkDataBlocks, 1,
                        [field |-> created[foName], exc |-> "",
                         A |-> lastA, result |-> lastResult])
    IN [frame |-> IF st.exc = ""
                  THEN [outputFrame EXCEPT !.fieldOutputs =
                                        [created EXCEPT ![foName] = st.field]]
                  ELSE outputFrame,
        exc |-> st.exc, A |-> st.A, result |-> st.result]

\* calculate(outputFrame): the frame as calculate leaves it, the exception it
\* raises ("" when it returns) and the latest sign_trace call
calculate(outputFrame, lastA, lastResult) ==
    LET S == outputFrame.fieldOutputs["S"]
        MISES == getScalarField(S)
        created == FieldOutput(outputFrame.fieldOutputs, foName,
                               "Signed Mises equivalent stress", MISES.type)
        st == blockLoop(S.bulkDataBlocks, MISES.bulkDataBlocks, 1,
                        [field |-> created[foName], exc |-> "",
                         A |-> lastA, result |-> lastResult])
    IN [frame |-> [outputFrame EXCEPT !.fieldOutputs =
                                        [created EXCEPT ![foName] = st.field]],
        exc |-> st.exc, A |-> st.A, result |-> st.result]

----------------------------------------------------------------------------
(* Archives on disk and command lines *)

\* the archive whose frames hold fos in order, cut into steps after the
\* frames named in cuts
MkArchive(fos, cuts) ==
    LET st == SortedSeq({1} \cup {c + 1 : c \in cuts})
        last(k) == IF k = Len(st) THEN Len(fos) ELSE st[k + 1] - 1
    IN [k \in 1..Len(st) |->
          [name |-> k,
           frames |-> [j \in 1..(last(k) - st[k] + 1) |->
                         [description |-> j, fieldOutputs |-> fos[st[k] + j - 1]]]]]

FoKinds == {FoNone, FoBoth(<<BlkSolid>>),
            FoS(<<BlkSolid, BlkMixed>>), FoS(<<BlkSolid, BlkPlane>>)}

\* archives of 1..MaxFrames frames of the kinds above, split into steps
CoarseArchives ==
    UNION {{MkArchive(fos, cuts) : cuts \in SUBSET (1..(Len(fos) - 1))} :
              fos \in SeqsUpTo(FoKinds, MaxFrames) \ {<<>>}}

\* archives of one frame holding "S" with 0..MaxBlocks blocks of any kind
OneFrameArchives ==
    {MkArchive(<<FoS(bs)>>, {}) : bs \in SeqsUpTo(BlockKinds, MaxBlocks)}

Job2 == MkArchive(<<FoS(<<BlkMixed>>)>>, {})

Disks == {[n \in {"Job-1.odb", "Job-2.odb"} |-> IF n = "Job-1.odb" THEN a ELSE Job2] :
            a \in CoarseArchives \cup OneFrameArchives}

\* Job-3.odb is not on disk
Args == {"--help", "--test", "Job-1.odb", "Job-2.odb", "Job-3.odb"}
Argvs == SeqsUpTo(Args, MaxArgs)

Line(kind, text, step, frame) ==
    [kind |-> kind, text |-> text, step |-> step, frame |-> frame]

\* the example of sign_trace's docstring, in tenths
DocInput == Array2D(<< <<1, 2, -4, 4, 5, 6>>, <<2, 0, -2, 3, -5, 0>>,
                       <<2, 0, 0, 3, -5, 0>> >>, 6)
DocExpected == [shape |-> <<3, 1>>, flat |-> <<-1, 1, 1>>]

NoEntry == [name |-> "", before |-> <<>>, prev |-> "never", mark |-> 0]

----------------------------------------------------------------------------
(* fromOdb and the argument loop *)

\* the frame after <<s, f>> in the order of the two for loops, <<0, 0>> at the end
RECURSIVE NextPos(_, _, _)
NextPos(steps, s, f) ==
    IF s > Len(steps) THEN <<0, 0>>
    ELSE IF f + 1 <= Len(steps[s].frames) THEN <<s, f + 1>>
    ELSE NextPos(steps, s + 1, 0)

wanted_any(fieldOutputs) ==
    "S" \in DOMAIN fieldOutputs

\* "S" in frame.fieldOutputs and not foName in frame.fieldOutputs
wanted(fieldOutputs) ==
    "S" \in DOMAIN fieldOutputs /\ ~(foName \in DOMAIN fieldOutputs)

closing_on_success(open, name, e) ==
    IF e = "" THEN open \ {name} ELSE open

\* contextlib.closing.__exit__: odb.close() whether or not an exception is in flight
closing(open, name, e) ==
    open \ {name}

\* the for loop moves to the next argument, the script ends after the last
continue(i) ==
    [argi |-> i + 1, pc |-> IF i + 1 > Len(argv) THEN "done" ELSE "loop"]

uncaught_guarded(i) ==
    continue(i)

\* nothing in the script catches an exception: the process ends with a traceback
uncaught(i) ==
    [argi |-> i, pc |-> "crashed"]

Hist == <<entry, outcome, ran, failed>>

Help ==
    /\ pc = "loop" /\ argv[argi] = "--help"
    /\ out' = Append(out, Line("doc", "", 0, 0))
    /\ argi' = continue(argi).argi /\ pc' = continue(argi).pc
    /\ UNCHANGED <<disk, argv, exc, odbs, cursor, runs, A, result, attempted>>
    /\ UNCHANGED Hist

Test ==
    /\ pc = "loop" /\ argv[argi] = "--test"
    /\ A' = DocInput
    /\ result' = sign_trace(DocInput)
    /\ out' = Append(out, Line(IF result'.value = DocExpected THEN "ok" ELSE "FAILED",
                               "", 0, 0))
    /\ argi' = continue(argi).argi /\ pc' = continue(argi).pc
    /\ UNCHANGED <<disk, argv, exc, odbs, cursor, runs, attempted>>
    /\ UNCHANGED Hist

Echo(arg) == IF Len(argv) + 1 > 2 THEN Append(out, Line("echo", arg, 0, 0)) ELSE out

\* fromOdb(arg): openOdb succeeds
OpenOk ==
    /\ pc = "loop" /\ argv[argi] \notin {"--help", "--test"}
    /\ argv[argi] \in DOMAIN disk
    /\ out' = Echo(argv[argi])
    /\ attempted' = attempted \cup {argi}
    /\ odbs' = odbs \cup {argv[argi]}
    /\ cursor' = NextPos(disk[argv[argi]], 1, 0)
    /\ pc' = IF cursor' = <<0, 0>> THEN "exit" ELSE "walk"
    /\ entry' = [name |-> argv[argi], before |-> disk[argv[argi]],
                 prev |-> ran[argv[argi]], mark |-> Len(out')]
    /\ outcome' = "running"
    /\ UNCHANGED <<disk, argv, argi, exc, runs, A, result, ran, failed>>

\* fromOdb(arg): openOdb raises, no odb is open
OpenFails ==
    /\ pc = "loop" /\ argv[argi] \notin {"--help", "--test"}
    /\ argv[argi] \notin DOMAIN disk
    /\ out' = Echo(argv[argi])
    /\ attempted' = attempted \cup {argi}
    /\ exc' = "OdbError"
    /\ argi' = uncaught(argi).argi /\ pc' = uncaught(argi).pc
    /\ UNCHANGED <<disk, argv, odbs, cursor, runs, A, result>>
    /\ UNCHANGED Hist

\* one pass of the inner for loop on a frame the if statement lets through
WalkCalculate ==
    /\ pc = "walk"
    /\ LET n == entry.name
           s == cursor[1]
           f == cursor[2]
           frame == disk[n][s].frames[f]
       IN /\ wanted(frame.fieldOutputs)
          /\ out' = Append(out, Line("progress", "", disk[n][s].name, frame.description))
          /\ LET r == calculate(frame, A, result)
             IN /\ disk' = [disk EXCEPT ![n][s].frames[f] = r.frame]
                /\ A' = r.A
                /\ result' = r.result
                /\ exc' = r.exc
                /\ failed' = IF r.exc = "" THEN failed ELSE failed \cup {<<n, s, f>>}
                /\ cursor' = IF r.exc = "" THEN NextPos(disk[n], s, f) ELSE cursor
                /\ pc' = IF r.exc # "" \/ cursor' = <<0, 0>> THEN "exit" ELSE "walk"
    /\ UNCHANGED <<argv, argi, odbs, runs, attempted, entry, outcome, ran>>

\* one pass of the inner for loop on a frame the if statement skips
WalkSkip ==
    /\ pc = "walk"
    /\ ~wanted(disk[entry.name][cursor[1]].frames[cursor[2]].fieldOutputs)
    /\ cursor' = NextPos(disk[entry.name], cursor[1], cursor[2])
    /\ pc' = IF cursor' = <<0, 0>> THEN "exit" ELSE "walk"
    /\ UNCHANGED <<disk, argv, argi, exc, odbs, out, runs, A, result, attempted>>
    /\ UNCHANGED Hist

\* leaving the with statement: the odb is closed, an exception goes on up
ExitWith ==
    /\ pc = "exit"
    /\ odbs' = closing(odbs, entry.name, exc)
    /\ outcome' = IF exc = "" THEN "ok" ELSE "error"
    /\ ran' = [ran EXCEPT ![entry.name] = outcome']
    /\ argi' = IF exc = "" THEN continue(argi).argi ELSE uncaught(argi).argi
    /\ pc' = IF exc = "" THEN continue(argi).pc ELSE uncaught(argi).pc
    /\ UNCHANGED <<disk, argv, exc, cursor, out, runs, A, result, attempted,
                   entry, failed>>

\* the same command is run again: a new process, the odb files as they are
Invoke ==
    /\ pc \in {"done", "crashed"}
    /\ runs < MaxRuns
    /\ runs' = runs + 1
    /\ argi' = 1
    /\ pc' = IF argv = <<>> THEN "done" ELSE "loop"
    /\ exc' = "" /\ out' = <<>> /\ attempted' = {}
    /\ A' = NoArray /\ result' = Pending
    /\ UNCHANGED <<disk, argv, odbs, cursor>>
    /\ UNCHANGED Hist

Init ==
    /\ disk \in Disks
    /\ argv \in Argvs
    /\ argi = 1
    /\ pc = IF argv = <<>> THEN "done" ELSE "loop"
    /\ exc = "" /\ odbs = {} /\ cursor = <<0, 0>> /\ out = <<>> /\ runs = 1
    /\ A = NoArray /\ result = Pending
    /\ entry = NoEntry /\ outcome = "none"
    /\ ran = [n \in DOMAIN disk |-> "never"]
    /\ attempted = {} /\ failed = {}

Next ==
    \/ Help
    \/ Test
    \/ OpenOk
    \/ OpenFails
    \/ WalkCalculate
    \/ WalkSkip
    \/ ExitWith
    \/ Invoke

Spec == Init /\ [][Next]_vars

----------------------------------------------------------------------------
(* sign_trace on its own *)

Components == {-1, 0, 1}
Shears == {<<0, 0, 0>>, <<-2, 3, -2>>}
Tensors == {<<a, b, c>> \o sh : a \in Components, b \in Components,
                                 c \in Components, sh \in Shears}
Batches == {Array2D(rows, 6) : rows \in SeqsUpTo(Tensors, MaxN)}
Misshapen ==
    {NoArray, [shape |-> <<6>>, flat |-> <<1, 1, 1, 0, 0, 0>>],
     Array2D(<< <<-1, -1, 0, 1>> >>, 4), Array2D(<< <<1, 1, 1, 0, 0, 0, 0>> >>, 7),
     [shape |-> <<1, 1, 6>>, flat |-> <<-1, -1, -1, 0, 0, 0>>]}

InitSign ==
    /\ A \in Batches \cup Misshapen
    /\ result = Pending
    /\ disk = [n \in {"Job-1.odb", "Job-2.odb"} |-> Job2]
    /\ argv = <<>> /\ argi = 1 /\ pc = "call"
    /\ exc = "" /\ odbs = {} /\ cursor = <<0, 0>> /\ out = <<>> /\ runs = 1
    /\ entry = NoEntry /\ outcome = "none"
    /\ ran = [n \in DOMAIN disk |-> "never"]
    /\ attempted = {} /\ failed = {}

Call ==
    /\ pc = "call"
    /\ result' = sign_trace(A)
    /\ exc' = result'.exc
    /\ pc' = IF result'.state = "raised" THEN "crashed" ELSE "done"
    /\ UNCHANGED <<disk, argv, argi, odbs, cursor, out, runs, A, attempted>>
    /\ UNCHANGED Hist

NextSign == Call

SpecSign == InitSign /\ [][NextSign]_vars

----------------------------------------------------------------------------
(* Properties *)

Flags == {"--help", "--test"}

\* +1 for a trace >= 0, -1 otherwise, read off a (N, 6) array
SignOf(a, i) == IF a.flat[6 * (i - 1) + 1] + a.flat[6 * (i - 1) + 2]
                     + a.flat[6 * (i - 1) + 3] >= 0 THEN 1 ELSE -1

Shear(a, i) == <<a.flat[6 * (i - 1) + 4], a.flat[6 * (i - 1) + 5], a.flat[6 * (i - 1) + 6]>>

IsBatch(a) == Len(a.shape) = 2 /\ a.shape[2] = 6

\* every <<step, frame>> of an archive
Positions(steps) ==
    UNION {{<<s, f>> : f \in 1..Len(steps[s].frames)} : s \in 1..Len(steps)}

FoAt(steps, p) == steps[p[1]].frames[p[2]].fieldOutputs

\* the frames of the archive of the latest fromOdb to which that fromOdb has
\* added the field
Synthesized ==
    IF outcome = "none" THEN {}
    ELSE {p \in Positions(entry.before) :
            /\ ~(foName \in DOMAIN FoAt(entry.before, p))
            /\ foName \in DOMAIN FoAt(disk[entry.name], p)}

\* progress lines printed by the fromOdb in progress
Progress == {<<out[i].step, out[i].frame>> :
                i \in {j \in (entry.mark + 1)..Len(out) : out[j].kind = "progress"}}

\* C1: for a batch of N tensors of 6 components sign_trace returns a (N, 1)
\* column whose i-th value is +1 when S11+S22+S33 of tensor i is >= 0 (0
\* included) and -1 when it is < 0, whatever S12, S13 and S23 are.
C1_SignOfTrace ==
    (pc # "call" /\ IsBatch(A)) =>
        /\ result.state = "returned"
        /\ result.value.shape = <<A.shape[1], 1>>
        /\ Len(result.value.flat) = A.shape[1]
        /\ \A i \in 1..A.shape[1] : result.value.flat[i] = SignOf(A, i)

C1_Witness ==
    /\ pc = "done" /\ IsBatch(A) /\ A.shape[1] = 2
    /\ SignOf(A, 1) = -1 /\ result.value.flat[1] = -1
    /\ A.flat[7] + A.flat[8] + A.flat[9] = 0 /\ Shear(A, 2) # <<0, 0, 0>>
    /\ result.value.flat[2] = 1

\* C2: when fromOdb has completed without error, every frame that held "S"
\* and no "S_MISES" on entry holds its old fields unchanged plus the one new
\* field "S_MISES", and every other frame is as it was; at no time is a field
\* that existed on entry modified or removed.
C2_FrameEffect ==
    (outcome # "none") =>
        LET before == entry.before
            now == disk[entry.name]
        IN /\ Len(now) = Len(before)
           /\ \A s \in 1..Len(before) : Len(now[s].frames) = Len(before[s].frames)
           /\ \A p \in Positions(before) :
                /\ \A n \in DOMAIN FoAt(before, p) :
                      n \in DOMAIN FoAt(now, p) /\ FoAt(now, p)[n] = FoAt(before, p)[n]
                /\ outcome = "ok" =>
                      IF "S" \in DOMAIN FoAt(before, p) /\ foName \notin DOMAIN FoAt(before, p)
                      THEN DOMAIN FoAt(now, p) = DOMAIN FoAt(before, p) \cup {foName}
                      ELSE now[p[1]].frames[p[2]] = before[p[1]].frames[p[2]]

C2_Witness ==
    /\ outcome = "ok" /\ Positions(entry.before) = {<<1, 1>>, <<2, 1>>}
    /\ DOMAIN FoAt(entry.before, <<1, 1>>) = {"S", foName}
    /\ FoAt(disk[entry.name], <<1, 1>>)[foName] = OldSMises
    /\ DOMAIN FoAt(entry.before, <<2, 1>>) = {"S", "U"}
    /\ DOMAIN FoAt(disk[entry.name], <<2, 1>>) = {"S", "U", foName}

\* C3: in a frame calculate has worked on, S_MISES holds one block per pair
\* (S block, MISES block), in order (all pairs when calculate returned), and
\* value i of block k is sign_i * m_i: m_i the MISES block's value i, sign_i
\* the sign of the trace of tensor i of the S block; the block has as many
\* entries as the MISES block.
C3_Multiplicative ==
    \A p \in Synthesized :
        LET fo == FoAt(disk[entry.name], p)
            Sb == fo["S"].bulkDataBlocks
            Mb == getScalarField(fo["S"]).bulkDataBlocks
            Eb == fo[foName].bulkDataBlocks
        IN /\ Len(Eb) <= Len(Sb)
           /\ <<entry.name, p[1], p[2]>> \notin failed => Len(Eb) = Len(Sb)
           /\ \A k \in 1..Len(Eb) :
                /\ Eb[k].data.shape = Mb[k].data.shape
                /\ Len(Eb[k].data.flat) = Len(Mb[k].data.flat)
                /\ \A i \in 1..Len(Mb[k].data.flat) :
                      Eb[k].data.flat[i] = SignOf(Sb[k].data, i) * Mb[k].data.flat[i]

C3_Witness ==
    /\ outcome = "ok" /\ <<1, 1>> \in Synthesized
    /\ FoAt(disk[entry.name], <<1, 1>>)["S"].bulkDataBlocks = <<BlkMixed, BlkSolid>>
    /\ FoAt(disk[entry.name], <<1, 1>>)[foName].bulkDataBlocks[1].data.flat = <<-1, 4>>
    /\ FoAt(disk[entry.name], <<1, 1>>)[foName].bulkDataBlocks[2].data.flat = <<-2, 3>>

\* the frames that held S_MISES when the latest fromOdb opened the odb are
\* unchanged and no progress line was printed for them
SkipsPresent ==
    (outcome # "none") =>
        \A p \in Positions(entry.before) :
            foName \in DOMAIN FoAt(entry.before, p) =>
                /\ disk[entry.name][p[1]].frames[p[2]] = entry.before[p[1]].frames[p[2]]
                /\ outcome = "running" => p \notin Progress

C5_Precondition ==
    (result.state # "pending" /\ ~IsBatch(A)) =>
        /\ result.state = "raised"
        /\ result.exc \in ShapeError
        /\ result.exc = (IF Len(A.shape) # 2 THEN NotTwoD ELSE NotSix)
        /\ result.value = NoArray
        /\ exc = result.exc
        /\ pc \in {"exit", "crashed"}

C5_Witness ==
    /\ pc = "crashed" /\ exc = NotTwoD /\ A.shape = <<6>> /\ result.state = "raised"
    /\ outcome = "error"

\* C6: an odb that fromOdb opened is closed when fromOdb is left, normally or
\* by an exception: outside fromOdb no odb is open, inside it exactly the one
\* it opened is, so at most one is open at any time.
C6_Closed ==
    /\ Cardinality(odbs) <= 1
    /\ pc \in {"loop", "done", "crashed"} => odbs = {}
    /\ pc \in {"walk", "exit"} => odbs = {entry.name}

C6_Witness ==
    /\ pc = "crashed" /\ exc \in ShapeError /\ outcome = "error" /\ odbs = {}
    /\ ran["Job-2.odb"] = "ok" /\ entry.name = "Job-1.odb"

\* C7 as stated: a failure on one archive does not keep the archives named
\* after it from being attempted: when the script has ended, fromOdb has been
\* called for every archive argument.
C7_Original ==
    pc \in {"done", "crashed"} =>
        \A i \in DOMAIN argv : argv[i] \notin Flags => i \in attempted

\* C7 amended: archives are processed in argument order and a failure on one
\* (open failure or ShapeError) ends the run there: the archives named after
\* it are not attempted; without a failure every archive named is attempted.
C7_FailureEndsRun ==
    /\ exc # "" =>
          /\ pc \in {"exit", "crashed"}
          /\ argi \in attempted
          /\ \A j \in attempted : j <= argi
    /\ attempted = {i \in DOMAIN argv : argv[i] \notin Flags
                                         /\ (i < argi \/ (i = argi /\ pc # "loop"))}
    /\ pc = "done" => exc = "" /\ argi = Len(argv) + 1

C7_Witness ==
    /\ pc = "crashed" /\ argi < Len(argv)
    /\ argv[argi + 1] \in DOMAIN disk /\ argv[argi + 1] # argv[argi]
    /\ (argi + 1) \notin attempted

\* C8: once --help (or --test) has been handled, no archive named after it
\* is opened by that run of the script.
C8_HelpExits ==
    \A i \in DOMAIN argv :
        (argv[i] \in Flags /\ i < argi) => \A j \in attempted : j < i

\* C9: an emitted block has a sectionPoint exactly when some entry of the
\* MISES block's sectionPoint is non-zero, and then it is that array.
C9_SectionPoint ==
    \A p \in Synthesized :
        LET fo == FoAt(disk[entry.name], p)
            Mb == getScalarField(fo["S"]).bulkDataBlocks
            Eb == fo[foName].bulkDataBlocks
        IN \A k \in 1..Len(Eb) :
              /\ ("sectionPoint" \in DOMAIN Eb[k])
                    <=> (\E i \in DOMAIN Mb[k].sectionPoint : Mb[k].sectionPoint[i] # 0)
              /\ ("sectionPoint" \in DOMAIN Eb[k])
                    => Eb[k].sectionPoint = Mb[k].sectionPoint

C9_Witness ==
    /\ <<1, 1>> \in Synthesized
    /\ LET Eb == FoAt(disk[entry.name], <<1, 1>>)[foName].bulkDataBlocks
       IN /\ Len(Eb) = 2
          /\ "sectionPoint" \in DOMAIN Eb[1] /\ Eb[1].sectionPoint = <<0, 1>>
          /\ "sectionPoint" \notin DOMAIN Eb[2]

\* index of the first block of a field whose data sign_trace rejects
FirstBad(blocks) ==
    CHOOSE k \in 1..Len(blocks) :
        ~IsBatch(blocks[k].data) /\ \A j \in 1..(k - 1) : IsBatch(blocks[j].data)

Later(q, p) == q[1] > p[1] \/ (q[1] = p[1] /\ q[2] > p[2])

\* C10: a frame in which sign_trace failed on block k holds an S_MISES field
\* of exactly the k-1 blocks emitted before, and keeps holding exactly those
\* through every later fromOdb; the fromOdb that failed left every later
\* frame of the archive as it found it.
C10_Partial ==
    /\ \A t \in failed :
          LET fo == disk[t[1]][t[2]].frames[t[3]].fieldOutputs
          IN /\ foName \in DOMAIN fo
             /\ \E k \in 1..Len(fo["S"].bulkDataBlocks) : ~IsBatch(fo["S"].bulkDataBlocks[k].data)
             /\ Len(fo[foName].bulkDataBlocks) = FirstBad(fo["S"].bulkDataBlocks) - 1
    /\ outcome = "error" =>
          /\ <<entry.name, cursor[1], cursor[2]>> \in failed
          /\ \A q \in Positions(entry.before) :
                Later(q, cursor) =>
                    disk[entry.name][q[1]].frames[q[2]] = entry.before[q[1]].frames[q[2]]

C10_Witness ==
    /\ outcome = "ok" /\ entry.prev = "error"
    /\ Positions(entry.before) = {<<1, 1>>, <<2, 1>>}
    /\ <<entry.name, 1, 1>> \in failed
    /\ Len(FoAt(disk[entry.name], <<1, 1>>)[foName].bulkDataBlocks) = 1
    /\ <<2, 1>> \in Synthesized

====
